---------------------------- MODULE Spec2Model ----------------------------
(***************************************************************************)
(* A model of the face-recognition attendance backend (src/index.js) and   *)
(* of the demo-teacher seeding script (src/unnamed/part_000).              *)
(*                                                                         *)
(* Every HTTP handler is one action.  The DynamoDB tables, the Rekognition *)
(* collection and the S3 bucket are the state.  Strings that the code      *)
(* concatenates or slices (identifiers, keys) are sequences of one-        *)
(* character strings, so that concatenation and slicing are computed as    *)
(* the code computes them.  A DynamoDB item is a function from the names   *)
(* of the attributes it holds to their values: an attribute the code never *)
(* wrote is absent from the item's domain, as it is in the schemaless      *)
(* store.                                                                  *)
(*                                                                         *)
(* Adapter faults.  The face search (SearchFacesByImage) may fail, because *)
(* register handles that failure with logic of its own; IndexFaces fails   *)
(* when the collection was never created.  A DynamoDB or S3 call is taken  *)
(* to succeed: its failure ends any handler in the outer catch (HTTP 500)  *)
(* with nothing more written.                                              *)
(***************************************************************************)
EXTENDS Integers, Sequences, FiniteSets

VARIABLES
    users,            \* Users table: userId -> item
    sessions,         \* AttendanceSessions table: sessionId -> item
    attendance,       \* Attendance table: attendanceId -> item
    timetable,        \* Timetable table: timetableId -> item
    collection,       \* Rekognition collection: set of indexed faces
    collectionExists, \* whether the Rekognition collection was created
    nextFaceId,       \* the FaceId Rekognition assigns to the next indexed face
    s3,               \* S3 bucket: object key -> bytes
    clock,            \* Date.now(), in milliseconds
    ticks,            \* how many times the clock has been advanced
    inflight,         \* register requests waiting at `await` for their face search
    resp              \* the request handled last and the response sent for it

vars == <<users, sessions, attendance, timetable, collection, collectionExists,
          nextFaceId, s3, clock, ticks, inflight, resp>>

-----------------------------------------------------------------------------
(* Bounds of the model *)

\* Date.now() when the server starts (a 10-digit count of milliseconds).
StartMs == 1700000500
\* How many times the clock advances in one behaviour.
MaxTicks == 1
\* How many self-registered users the Users table holds.
MaxUsers == 2
\* How many faces the Rekognition collection holds.
MaxIndexed == 2
\* How many sessions the AttendanceSessions table holds.
MaxSessions == 1
\* How many records the Attendance table holds.
MaxAttendance == 2
\* How many items the Timetable table holds.
MaxTimetable == 2
\* How many register requests wait for their face search at once.
MaxInflight == 2

-----------------------------------------------------------------------------
(* Strings as sequences of characters *)

DigitChar == <<"0", "1", "2", "3", "4", "5", "6", "7", "8", "9">>

\* Number.prototype.toString() of a non-negative integer.
RECURSIVE NumToString(_)
NumToString(n) ==
    IF n < 10 THEN <<DigitChar[n + 1]>>
    ELSE NumToString(n \div 10) \o <<DigitChar[(n % 10) + 1]>>

\* String.prototype.slice(-k): the last k characters, the whole string if shorter.
SliceLast(s, k) ==
    IF Len(s) <= k THEN s ELSE SubSeq(s, Len(s) - k + 1, Len(s))

\* String.prototype.padStart(k, c).
RECURSIVE PadStart(_, _, _)
PadStart(s, k, c) ==
    IF Len(s) >= k THEN s ELSE PadStart(<<c>> \o s, k, c)

\* The empty string, which JavaScript takes as false.
Empty == <<>>

-----------------------------------------------------------------------------
(* The DynamoDB document client *)

\* An item with the attributes of `sets` written over those of `item`.
Merge(item, sets) ==
    [a \in (DOMAIN item) \cup (DOMAIN sets) |->
        IF a \in DOMAIN sets THEN sets[a] ELSE item[a]]

\* PutCommand: the item replaces whatever the key held.
DdbPut(table, key, item) ==
    [k \in (DOMAIN table) \cup {key} |-> IF k = key THEN item ELSE table[k]]

\* UpdateCommand with a SET expression: the attributes are written into the
\* item of that key; an absent key gets a new item of the key and the attributes.
DdbUpdate(table, keyAttr, key, sets) ==
    DdbPut(table, key,
           IF key \in DOMAIN table
           THEN Merge(table[key], sets)
           ELSE Merge([a \in {keyAttr} |-> key], sets))

\* GetCommand: whether the key holds an item (resp.Item is defined).
HasItem(table, key) == key \in DOMAIN table

\* An attribute read the way JavaScript reads it in a condition: absent is false.
IsTrue(item, a) == a \in DOMAIN item /\ item[a] = TRUE

-----------------------------------------------------------------------------
(* Images and the face-match service *)

\* The photographs requests carry.  P1 and P2 show the same person, P3 another.
Photos == {"P1", "P2", "P3"}

\* imageBase64 as sent: the base64 text, with or without a data-URL prefix.
DataUrl(p) == [prefix |-> "data:image/png;base64,", b64 |-> p]
RawB64(p) == [prefix |-> "", b64 |-> p]
NoImage == [prefix |-> "", b64 |-> ""]
ImageInputs == {NoImage, DataUrl("P1"), RawB64("P2"), RawB64("P3")}

\* !imageBase64
ImageMissing(img) == img.prefix = "" /\ img.b64 = ""

\* Buffer.from(imageBase64.replace(/^data:image\/[a-zA-Z]+;base64,/, ''), 'base64')
ImageBuffer(img) == img.b64

\* The similarity (0..100) Rekognition reports between the faces of two photographs.
Similarity(p, q) ==
    IF p = q THEN 100
    ELSE IF {p, q} = {"P1", "P2"} THEN 90
    ELSE IF {p, q} = {"P2", "P3"} THEN 80
    ELSE 78

\* FaceMatchThreshold of register's duplicate search.
RegisterThreshold == 80
\* FACE_MATCH_THRESHOLD, by default.
FACE_MATCH_THRESHOLD == 75

\* The faces of the collection whose similarity to the photograph meets the threshold.
Matching(bytes, threshold) ==
    {f \in collection : Similarity(f.image, bytes) >= threshold}

\* What SearchFacesByImageCommand with MaxFaces: 1 can answer: an exception, or
\* FaceMatches holding the most similar face meeting the threshold (any of them
\* when several tie), empty when none does.
SearchFacesByImage(bytes, threshold) ==
    IF ~collectionExists
    THEN {[name |-> "ResourceNotFoundException", FaceMatches |-> <<>>]}
    ELSE {[name |-> "ThrottlingException", FaceMatches |-> <<>>]}
         \cup
         (IF Matching(bytes, threshold) = {}
          THEN {[name |-> "ok", FaceMatches |-> <<>>]}
          ELSE {[name |-> "ok", FaceMatches |-> <<f>>] :
                   f \in {g \in Matching(bytes, threshold) :
                            \A h \in Matching(bytes, threshold) :
                               Similarity(h.image, bytes) <= Similarity(g.image, bytes)}})

-----------------------------------------------------------------------------
(* Requests *)

\* An identifier no table holds.
UnknownId == <<"9", "9">>

TEACH001 == <<"T", "E", "A", "C", "H", "0", "0", "1">>
TEACH002 == <<"T", "E", "A", "C", "H", "0", "0", "2">>
TEACH003 == <<"T", "E", "A", "C", "H", "0", "0", "3">>
TEACH004 == <<"T", "E", "A", "C", "H", "0", "0", "4">>
TEACH005 == <<"T", "E", "A", "C", "H", "0", "0", "5">>

\* The identifiers the seeding script writes.
DemoTeacherIds == {TEACH001, TEACH002, TEACH003, TEACH004, TEACH005}

\* The users register created.
Registered == (DOMAIN users) \ DemoTeacherIds

\* The register requests: a first registration, the same photograph under another
\* name and role, another photograph of the same person, another person, and
\* requests with a field missing.
RegisterRequests ==
    { [name |-> "A", email |-> "a@x", role |-> "student", imageBase64 |-> DataUrl("P1")],
      [name |-> "B", email |-> "b@x", role |-> "teacher", imageBase64 |-> DataUrl("P1")],
      [name |-> "B", email |-> "b@x", role |-> "admin",   imageBase64 |-> RawB64("P2")],
      [name |-> "C", email |-> "c@x", role |-> "student", imageBase64 |-> RawB64("P3")],
      [name |-> "",  email |-> "c@x", role |-> "student", imageBase64 |-> RawB64("P3")],
      [name |-> "C", email |-> "c@x", role |-> "student", imageBase64 |-> NoImage] }

\* The values Math.floor(Math.random() * 100) takes in the model.
RandomSuffixes == {7}

\* The user identifiers requests carry: every registered user, one seeded
\* teacher, an identifier of no user, and none.
UserIdInputs == Registered \cup {TEACH001, UnknownId, Empty}

\* The user identifiers reject and remove requests carry.
RejectIdInputs == Registered \cup {UnknownId, Empty}

\* The passwords approve requests assign.
ApprovePasswords == {"", "pw1"}

\* The login requests: each known or unknown user with a right or wrong
\* password, and requests with a field missing.
LoginRequests ==
    { [userId |-> u, password |-> p, role |-> "student"] :
         u \in Registered \cup {UnknownId}, p \in {"pw1", "pw2"} }
    \cup
    { [userId |-> Empty,     password |-> "pw1", role |-> "student"],
      [userId |-> UnknownId, password |-> "",    role |-> "student"],
      [userId |-> UnknownId, password |-> "pw1", role |-> ""] }

ReasonInputs == {""}

NoRequest == [op |-> "none"]

-----------------------------------------------------------------------------
(* The initial state: the server has started, the tables are empty.          *)
(* createCollectionIfNotExists may have failed (its error is not fatal).     *)

Init ==
    /\ users = <<>>
    /\ sessions = <<>>
    /\ attendance = <<>>
    /\ timetable = <<>>
    /\ collection = {}
    /\ collectionExists \in BOOLEAN
    /\ nextFaceId = 1
    /\ s3 = <<>>
    /\ clock = StartMs
    /\ ticks = 0
    /\ inflight = {}
    /\ resp = NoRequest

\* The initial state when createCollectionIfNotExists succeeded.
InitCollectionCreated == Init /\ collectionExists = TRUE

\* Time passes between two requests: 600 or 601 seconds.
TickSteps == {600000, 601000}

Tick ==
    /\ ticks < MaxTicks
    /\ \E d \in TickSteps : clock' = clock + d
    /\ ticks' = ticks + 1
    /\ resp' = NoRequest
    /\ UNCHANGED <<users, sessions, attendance, timetable, collection,
                   collectionExists, nextFaceId, s3, inflight>>

-----------------------------------------------------------------------------
(* POST /auth/register *)

\* The prefix as it would be if only teachers got "2".
RolePrefixTeacherOnly(role) == IF role = "teacher" THEN <<"2">> ELSE <<"1">>

\* const rolePrefix = role === 'student' ? '1' : '2'
RolePrefix(role) == IF role = "student" THEN <<"1">> ELSE <<"2">>

\* rolePrefix + Date.now().toString().slice(-8) + the random suffix padded to 2
TempId(role, now, rand) ==
    RolePrefix(role) \o SliceLast(NumToString(now), 8)
                     \o PadStart(NumToString(rand), 2, "0")

\* !name || !email || !role || !imageBase64
RegisterMissing(req) ==
    req.name = "" \/ req.email = "" \/ req.role = "" \/ ImageMissing(req.imageBase64)

\* The duplicate check: the search answered and FaceMatches is not empty.  An
\* exception of the search, whatever its name, is caught and registration goes on.
DuplicateFound(found) == found.name = "ok" /\ Len(found.FaceMatches) > 0

\* The item register stores.
PendingUser(req, id) ==
    [userId |-> id, name |-> req.name, email |-> req.email, role |-> req.role,
     approved |-> FALSE, faceImage |-> req.imageBase64]

Register(req, rand, found) ==
    /\ IF RegisterMissing(req)
       THEN /\ resp' = [op |-> "register", req |-> req, status |-> 400,
                        body |-> [success |-> FALSE, error |-> "Missing fields"]]
            /\ UNCHANGED users
       ELSE IF DuplicateFound(found)
       THEN /\ resp' = [op |-> "register", req |-> req, search |-> found.name,
                        status |-> 409,
                        body |-> [success |-> FALSE, code |-> "DUPLICATE_FACE",
                                  existingUserId |-> found.FaceMatches[1].ExternalImageId]]
            /\ UNCHANGED users
       ELSE LET id == TempId(req.role, clock, rand) IN
            /\ id \in DOMAIN users \/ Cardinality(Registered) < MaxUsers
            /\ users' = DdbPut(users, id, PendingUser(req, id))
            /\ resp' = [op |-> "register", req |-> req, search |-> found.name,
                        status |-> 200,
                        body |-> [success |-> TRUE, userId |-> id]]
    /\ UNCHANGED <<sessions, attendance, timetable, collection, collectionExists,
                   nextFaceId, s3, clock, ticks>>

-----------------------------------------------------------------------------
(* POST /admin/approve *)

\* const key = `${userId}.jpg`
PhotoKey(userId) == userId \o <<".", "j", "p", "g">>

\* !user.faceImage
NoFaceImage(user) == "faceImage" \notin DOMAIN user \/ ImageMissing(user.faceImage)

\* IndexFaces as it would be if a face were stored once per external reference.
IndexFacesOncePerUser(coll, faceId, externalImageId, bytes) ==
    IF \E f \in coll : f.ExternalImageId = externalImageId THEN coll
    ELSE coll \cup {[FaceId |-> faceId, ExternalImageId |-> externalImageId,
                     image |-> bytes]}

\* IndexFacesCommand: the face of the photograph is stored in the collection
\* under a new FaceId, tagged with ExternalImageId.
IndexFaces(coll, faceId, externalImageId, bytes) ==
    coll \cup {[FaceId |-> faceId, ExternalImageId |-> externalImageId,
                image |-> bytes]}

\* approve as it would be if it cleared the rejection.
ApprovedAttrsClearRejected(password, faceId, key, now) ==
    [approved |-> TRUE, password |-> password, faceId |-> faceId, photoKey |-> key,
     isActive |-> TRUE, approvedAt |-> now, rejected |-> FALSE]

\* approve as it would be without isActive in its update expression.
ApprovedAttrsNotActive(password, faceId, key, now) ==
    [approved |-> TRUE, password |-> password, faceId |-> faceId, photoKey |-> key,
     approvedAt |-> now]

\* The attributes approve sets on the user.
ApprovedAttrs(password, faceId, key, now) ==
    [approved |-> TRUE, password |-> password, faceId |-> faceId, photoKey |-> key,
     isActive |-> TRUE, approvedAt |-> now]

Approve(userId, password) ==
    /\ IF userId = Empty \/ password = ""
       THEN /\ resp' = [op |-> "approve", req |-> [userId |-> userId, password |-> password],
                        status |-> 400,
                        body |-> [success |-> FALSE, error |-> "userId and password required"]]
            /\ UNCHANGED <<users, collection, nextFaceId, s3>>
       ELSE IF ~HasItem(users, userId)
       THEN /\ resp' = [op |-> "approve", req |-> [userId |-> userId, password |-> password],
                        status |-> 404,
                        body |-> [success |-> FALSE, error |-> "User not found"]]
            /\ UNCHANGED <<users, collection, nextFaceId, s3>>
       ELSE IF NoFaceImage(users[userId])
       THEN /\ resp' = [op |-> "approve", req |-> [userId |-> userId, password |-> password],
                        status |-> 400,
                        body |-> [success |-> FALSE, error |-> "No face image for user"]]
            /\ UNCHANGED <<users, collection, nextFaceId, s3>>
       ELSE LET bytes == ImageBuffer(users[userId].faceImage)
                key == PhotoKey(userId)
            IN  /\ s3' = DdbPut(s3, key, bytes)
                /\ IF ~collectionExists
                   THEN \* IndexFacesCommand throws: the outer catch answers
                        /\ resp' = [op |-> "approve",
                                    req |-> [userId |-> userId, password |-> password],
                                    status |-> 500,
                                    body |-> [success |-> FALSE,
                                              error |-> "ResourceNotFoundException"]]
                        /\ UNCHANGED <<users, collection, nextFaceId>>
                   ELSE /\ Cardinality(collection) < MaxIndexed
                        /\ collection' = IndexFaces(collection, nextFaceId, userId, bytes)
                        /\ nextFaceId' = nextFaceId + 1
                        /\ users' = DdbUpdate(users, "userId", userId,
                                       ApprovedAttrs(password, nextFaceId, key, clock))
                        /\ resp' = [op |-> "approve",
                                    req |-> [userId |-> userId, password |-> password],
                                    status |-> 200,
                                    body |-> [success |-> TRUE, faceId |-> nextFaceId]]
    /\ UNCHANGED <<sessions, attendance, timetable, collectionExists, clock, ticks, inflight>>

-----------------------------------------------------------------------------
(* POST /admin/reject *)

Reject(userId, reason) ==
    /\ IF userId = Empty
       THEN /\ resp' = [op |-> "reject", req |-> [userId |-> userId, reason |-> reason],
                        status |-> 400,
                        body |-> [success |-> FALSE, error |-> "userId required"]]
            /\ UNCHANGED users
       ELSE IF ~HasItem(users, userId)
       THEN /\ resp' = [op |-> "reject", req |-> [userId |-> userId, reason |-> reason],
                        status |-> 404,
                        body |-> [success |-> FALSE, error |-> "User not found"]]
            /\ UNCHANGED users
       ELSE /\ users' = DdbUpdate(users, "userId", userId,
                           [approved |-> FALSE, rejected |-> TRUE,
                            rejectionReason |->
                                IF reason = "" THEN "No reason provided" ELSE reason,
                            rejectedAt |-> clock])
            /\ resp' = [op |-> "reject", req |-> [userId |-> userId, reason |-> reason],
                        status |-> 200, body |-> [success |-> TRUE]]
    /\ UNCHANGED <<sessions, attendance, timetable, collection, collectionExists,
                   nextFaceId, s3, clock, ticks, inflight>>

-----------------------------------------------------------------------------
(* DELETE /admin/user/:userId *)

RemoveUser(userId) ==
    /\ IF ~HasItem(users, userId)
       THEN /\ resp' = [op |-> "removeUser", req |-> [userId |-> userId], status |-> 404,
                        body |-> [success |-> FALSE, error |-> "User not found"]]
            /\ UNCHANGED users
       ELSE /\ users' = DdbUpdate(users, "userId", userId,
                           [approved |-> FALSE, isActive |-> FALSE])
            /\ resp' = [op |-> "removeUser", req |-> [userId |-> userId], status |-> 200,
                        body |-> [success |-> TRUE]]
    /\ UNCHANGED <<sessions, attendance, timetable, collection, collectionExists,
                   nextFaceId, s3, clock, ticks, inflight>>

-----------------------------------------------------------------------------
(* POST /auth/login *)

\* login as it would be without the check of user.approved.
LoginResponseNoApproval(userId, password, role) ==
    IF userId = Empty \/ password = "" \/ role = ""
    THEN [status |-> 400, body |-> [success |-> FALSE, error |-> "Missing fields"]]
    ELSE IF ~HasItem(users, userId)
    THEN [status |-> 404, body |-> [success |-> FALSE, error |-> "User not found"]]
    ELSE IF "password" \notin DOMAIN users[userId] \/ users[userId].password # password
    THEN [status |-> 401, body |-> [success |-> FALSE, error |-> "Incorrect password"]]
    ELSE [status |-> 200, body |-> [success |-> TRUE, userId |-> userId, role |-> role]]

\* The response login sends for a request, in the order the handler decides it.
LoginResponse(userId, password, role) ==
    IF userId = Empty \/ password = "" \/ role = ""
    THEN [status |-> 400, body |-> [success |-> FALSE, error |-> "Missing fields"]]
    ELSE IF ~HasItem(users, userId)
    THEN [status |-> 404, body |-> [success |-> FALSE, error |-> "User not found"]]
    ELSE IF ~IsTrue(users[userId], "approved")
    THEN [status |-> 401, body |-> [success |-> FALSE, error |-> "User not approved"]]
    ELSE IF "password" \notin DOMAIN users[userId] \/ users[userId].password # password
    THEN [status |-> 401, body |-> [success |-> FALSE, error |-> "Incorrect password"]]
    ELSE [status |-> 200, body |-> [success |-> TRUE, userId |-> userId, role |-> role]]

Login(userId, password, role) ==
    /\ resp' = Merge([op |-> "login",
                      req |-> [userId |-> userId, password |-> password, role |-> role]],
                     LoginResponse(userId, password, role))
    /\ UNCHANGED <<users, sessions, attendance, timetable, collection, collectionExists,
                   nextFaceId, s3, clock, ticks, inflight>>

-----------------------------------------------------------------------------
(* POST /auth/verify-face *)

\* find as it would be if any returned candidate counted as the user's.
FindMatchAnyUser(matches, userId) == 1..Len(matches)

\* search.FaceMatches?.find(f => f.Face.ExternalImageId === userId)
FindMatch(matches, userId) ==
    {i \in 1..Len(matches) : matches[i].ExternalImageId = userId}

VerifyFaceResponse(userId, img, found) ==
    IF userId = Empty \/ ImageMissing(img)
    THEN [status |-> 400, body |-> [success |-> FALSE, error |-> "Missing fields"]]
    ELSE IF ~HasItem(users, userId)
    THEN [status |-> 404, body |-> [success |-> FALSE, error |-> "User not found"]]
    ELSE IF found.name # "ok"
    THEN [status |-> 500, body |-> [success |-> FALSE, error |-> found.name]]
    ELSE IF FindMatch(found.FaceMatches, userId) # {}
    THEN [status |-> 200, body |-> [success |-> TRUE, message |-> "Face matched"]]
    ELSE [status |-> 200, body |-> [success |-> FALSE, message |-> "Face not matched"]]

VerifyFace(userId, img, found) ==
    /\ resp' = Merge([op |-> "verifyFace",
                      req |-> [userId |-> userId, imageBase64 |-> img],
                      search |-> found],
                     VerifyFaceResponse(userId, img, found))
    /\ UNCHANGED <<users, sessions, attendance, timetable, collection, collectionExists,
                   nextFaceId, s3, clock, ticks, inflight>>

-----------------------------------------------------------------------------
(* The seeding script createDemoTeachers (run beside the server) *)

DemoTeacher(id, name, email, dept, spec, emp) ==
    [userId |-> id, name |-> name, email |-> email, password |-> "password123",
     role |-> "teacher", department |-> dept, specialization |-> spec,
     employeeId |-> emp, approved |-> TRUE, createdAt |-> clock]

DemoTeachers ==
    { DemoTeacher(TEACH001, "Dr. Sarah Johnson", "sarah.johnson@university.edu",
                  "Computer Science", "Machine Learning", "EMP001"),
      DemoTeacher(TEACH002, "Prof. Michael Chen", "michael.chen@university.edu",
                  "Mathematics", "Statistics", "EMP002"),
      DemoTeacher(TEACH003, "Dr. Emily Rodriguez", "emily.rodriguez@university.edu",
                  "Physics", "Quantum Mechanics", "EMP003"),
      DemoTeacher(TEACH004, "Prof. David Wilson", "david.wilson@university.edu",
                  "Chemistry", "Organic Chemistry", "EMP004"),
      DemoTeacher(TEACH005, "Dr. Lisa Thompson", "lisa.thompson@university.edu",
                  "Biology", "Molecular Biology", "EMP005") }

\* Each teacher is put with ConditionExpression attribute_not_exists(userId).
CreateDemoTeachers ==
    /\ users' = [k \in (DOMAIN users) \cup DemoTeacherIds |->
                    IF k \in DOMAIN users THEN users[k]
                    ELSE CHOOSE t \in DemoTeachers : t.userId = k]
    /\ resp' = [op |-> "createDemoTeachers"]
    /\ UNCHANGED <<sessions, attendance, timetable, collection, collectionExists,
                   nextFaceId, s3, clock, ticks, inflight>>

-----------------------------------------------------------------------------------------------------------------------------------------------------
(* Registration, approval and authentication.  These handlers read and write *)
(* the Users table, the collection and the bucket only, and no other handler *)
(* writes those, so their behaviours are checked on their own.               *)

\* A register request handled with no other request in between: the search is
\* answered from the collection as it is when the handler goes on.
DoRegister ==
    /\ \E req \in RegisterRequests, rand \in RandomSuffixes :
          \E found \in SearchFacesByImage(ImageBuffer(req.imageBase64), RegisterThreshold) :
             Register(req, rand, found)
    /\ UNCHANGED inflight

DoApprove ==
    \E userId \in UserIdInputs, password \in ApprovePasswords : Approve(userId, password)

DoReject ==
    \E userId \in RejectIdInputs, reason \in ReasonInputs : Reject(userId, reason)

DoRemoveUser ==
    \E userId \in RejectIdInputs : RemoveUser(userId)

DoLogin ==
    \E req \in LoginRequests : Login(req.userId, req.password, req.role)

DoVerifyFace ==
    \E userId \in RejectIdInputs, img \in ImageInputs :
       \E found \in SearchFacesByImage(ImageBuffer(img), FACE_MATCH_THRESHOLD) :
          VerifyFace(userId, img, found)

\* Registration and the administrator's decisions, with the seeded teachers.
NextAuth == DoRegister \/ DoApprove \/ DoReject \/ CreateDemoTeachers

SpecAuth == Init /\ [][NextAuth]_vars

\* The timestamps and random suffixes identifiers are synthesized from: the
\* last eight digits of the clock with and without leading zeros, suffixes of
\* one and of two digits.
ClockInputs == {StartMs, 1700000005, 1699999999}
IdSuffixes == {0, 7, 10, 99}

InitAnyClock ==
    /\ users = <<>>
    /\ sessions = <<>>
    /\ attendance = <<>>
    /\ timetable = <<>>
    /\ collection = {}
    /\ collectionExists \in BOOLEAN
    /\ nextFaceId = 1
    /\ s3 = <<>>
    /\ clock \in ClockInputs
    /\ ticks = 0
    /\ inflight = {}
    /\ resp = NoRequest

DoRegisterAnySuffix ==
    /\ \E req \in RegisterRequests, rand \in IdSuffixes :
          \E found \in SearchFacesByImage(ImageBuffer(req.imageBase64), RegisterThreshold) :
             Register(req, rand, found)
    /\ UNCHANGED inflight

\* Registration alone, over the timestamps and suffixes.
NextIds == DoRegisterAnySuffix

SpecIds == InitAnyClock /\ [][NextIds]_vars

\* The decisions of the administrator on the users that registered, with the
\* password "pw1", and their logins with that password.
DoApproveRegistered == \E userId \in Registered : Approve(userId, "pw1")

DoRejectRegistered == \E userId \in Registered : Reject(userId, "")

DoRemoveRegistered == \E userId \in Registered : RemoveUser(userId)

DoLoginRegistered == \E userId \in Registered : Login(userId, "pw1", users[userId].role)

\* Register requests that overlap.  The handler gives up control at
\* `await rekognition.send(...)`: the search is answered from the collection as
\* it is then, and the handler goes on later, after other handlers have run.
\* The requests carry one person's face; they arrive within one millisecond.
RaceRequests ==
    {req \in RegisterRequests :
        ~RegisterMissing(req) /\ ImageBuffer(req.imageBase64) \in {"P1", "P2"}}

\* register up to the answer of the face search.
RegisterSearch ==
    /\ Cardinality(inflight) < MaxInflight
    /\ \E req \in RaceRequests :
          /\ \A r \in inflight : r.req # req
          /\ \E found \in SearchFacesByImage(ImageBuffer(req.imageBase64),
                                             RegisterThreshold) :
                inflight' = inflight \cup {[req |-> req, found |-> found]}
    /\ resp' = NoRequest
    /\ UNCHANGED <<users, sessions, attendance, timetable, collection,
                   collectionExists, nextFaceId, s3, clock, ticks>>

\* register from the answer of the face search on.
RegisterFinish ==
    \E r \in inflight, rand \in RandomSuffixes :
       /\ Register(r.req, rand, r.found)
       /\ inflight' = inflight \ {r}

NextRace == RegisterSearch \/ RegisterFinish \/ DoApproveRegistered

SpecRace == InitCollectionCreated /\ [][NextRace]_vars

\* The life of a user record: registration, the decisions and login.
NextLifecycle ==
    \/ DoRegister
    \/ DoApproveRegistered
    \/ DoRejectRegistered
    \/ DoRemoveRegistered
    \/ DoLoginRegistered

SpecLifecycle == Init /\ [][NextLifecycle]_vars

\* Every handler that writes the Users table.
NextAdmin == DoRegister \/ DoApprove \/ DoReject \/ DoRemoveUser \/ CreateDemoTeachers

SpecAdmin == Init /\ [][NextAdmin]_vars

\* Login against users that are registered, approved and rejected.
NextLogin == DoRegister \/ DoApprove \/ DoReject \/ DoLogin

SpecLogin == Init /\ [][NextLogin]_vars

\* Face verification against users that are registered and approved.
NextVerify == DoRegister \/ DoApprove \/ DoVerifyFace

SpecVerify == Init /\ [][NextVerify]_vars

-----------------------------------------------------------------------------
(* Attendance sessions and attendance records *)

S1 == <<"s", "1">>
S2 == <<"s", "2">>
T1 == <<"t", "1">>
CS == <<"C", "S">>

\* A session identifier of the code's form that was never generated.
UnknownSession == <<"C", "L", "A", "S", "S", "-", "X", "-", "1">>

\* presentStudents: an array of student identifiers, or something that is no array.
StudentList(items) == [array |-> TRUE, items |-> items]
NotAnArray == [array |-> FALSE, items |-> <<>>]

\* The session identifiers requests carry: every session generated and one that
\* was not.
SessionInputs == (DOMAIN sessions) \cup {UnknownSession}

\* The generate-qr requests: a teacher and a class, or one of them missing.
GenerateQrRequests ==
    { [teacherId |-> T1,    classId |-> CS],
      [teacherId |-> Empty, classId |-> CS],
      [teacherId |-> T1,    classId |-> Empty] }

\* The mark requests: a student for every session identifier, or a field
\* missing.  No handler looks the student up.
MarkRequests ==
    { [userId |-> S1, sessionId |-> q] : q \in SessionInputs }
    \cup
    { [userId |-> Empty, sessionId |-> UnknownSession],
      [userId |-> S1,    sessionId |-> Empty] }

\* The scan-qr requests.
ScanQrRequests ==
    { [userId |-> S1, qrData |-> q, cameraType |-> "back"] : q \in SessionInputs }
    \cup
    { [userId |-> Empty, qrData |-> UnknownSession, cameraType |-> ""],
      [userId |-> S1,    qrData |-> Empty,          cameraType |-> ""] }

\* The submit-attendance requests: a list of no or two students with a session
\* identifier supplied or not, or a field missing.
SubmitRequests ==
    { [teacherId |-> T1, classId |-> CS, presentStudents |-> StudentList(l), sessionId |-> q] :
         l \in {<<>>, <<S1, S2>>}, q \in SessionInputs \cup {Empty} }
    \cup
    { [teacherId |-> Empty, classId |-> CS, presentStudents |-> StudentList(<<S1>>),
       sessionId |-> Empty],
      [teacherId |-> T1, classId |-> Empty, presentStudents |-> StudentList(<<S1>>),
       sessionId |-> Empty],
      [teacherId |-> T1, classId |-> CS, presentStudents |-> NotAnArray,
       sessionId |-> Empty] }

\* `CLASS-${classId}-${Date.now()}`
SessionId(classId, now) ==
    <<"C", "L", "A", "S", "S", "-">> \o classId \o <<"-">> \o NumToString(now)

\* expireAt as it would be with Math.round in place of Math.floor.
ExpireAtRounded(now) == (now + 10 * 60 * 1000 + 500) \div 1000

\* Math.floor((Date.now() + 10*60*1000)/1000), in unix seconds
ExpireAt(now) == (now + 10 * 60 * 1000) \div 1000

\* The current time as it would be compared without the division by 1000.
NowMillis(now) == now

\* The current second as it would be if it were taken one second late.
NowSecondsLate(now) == (now \div 1000) - 1

\* Math.floor(Date.now()/1000)
NowSeconds(now) == now \div 1000

\* new Date().toISOString().split('T')[0]: the UTC day, as a count of days.
Today(now) == now \div 86400000

\* The attendance identifier with the time of marking in it.
AttendanceIdTimed(userId, sessionId) ==
    userId \o <<"-">> \o sessionId \o <<"-">> \o NumToString(clock)

\* The attendance identifier as it would be with the length of userId in front,
\* which tells where userId ends.
AttendanceIdLengthPrefixed(userId, sessionId) ==
    NumToString(Len(userId)) \o <<":">> \o userId \o <<"-">> \o sessionId

\* `${userId}-${sessionId}`
AttendanceId(userId, sessionId) == userId \o <<"-">> \o sessionId

\* A put into the Attendance table fits the model's bound.
AttendanceFits(table) == Cardinality(DOMAIN table) <= MaxAttendance

(* POST /teacher/generate-qr.  Both readings of Date.now() in the handler are  *)
(* taken at the same instant.                                                 *)
GenerateQr(teacherId, classId) ==
    /\ IF teacherId = Empty \/ classId = Empty
       THEN /\ resp' = [op |-> "generateQr",
                        req |-> [teacherId |-> teacherId, classId |-> classId],
                        status |-> 400,
                        body |-> [success |-> FALSE, error |-> "Missing fields"]]
            /\ UNCHANGED sessions
       ELSE LET sessionId == SessionId(classId, clock) IN
            /\ sessionId \in DOMAIN sessions \/ Cardinality(DOMAIN sessions) < MaxSessions
            /\ sessions' = DdbPut(sessions, sessionId,
                              [sessionId |-> sessionId, classId |-> classId,
                               teacherId |-> teacherId, expireAt |-> ExpireAt(clock)])
            /\ resp' = [op |-> "generateQr",
                        req |-> [teacherId |-> teacherId, classId |-> classId],
                        status |-> 200,
                        body |-> [success |-> TRUE, qrData |-> sessionId,
                                  sessionId |-> sessionId]]
    /\ UNCHANGED <<users, attendance, timetable, collection, collectionExists,
                   nextFaceId, s3, clock, ticks, inflight>>

(* POST /attendance/mark *)
Mark(userId, sessionId) ==
    /\ IF userId = Empty \/ sessionId = Empty
       THEN /\ resp' = [op |-> "mark", req |-> [userId |-> userId, sessionId |-> sessionId],
                        status |-> 400,
                        body |-> [success |-> FALSE, error |-> "Missing fields"]]
            /\ UNCHANGED attendance
       ELSE IF ~HasItem(sessions, sessionId)
       THEN /\ resp' = [op |-> "mark", req |-> [userId |-> userId, sessionId |-> sessionId],
                        status |-> 200,
                        body |-> [success |-> FALSE, error |-> "Invalid session"]]
            /\ UNCHANGED attendance
       ELSE IF NowSeconds(clock) > sessions[sessionId].expireAt
       THEN /\ resp' = [op |-> "mark", req |-> [userId |-> userId, sessionId |-> sessionId],
                        status |-> 200,
                        body |-> [success |-> FALSE, error |-> "Session expired"]]
            /\ UNCHANGED attendance
       ELSE /\ attendance' = DdbPut(attendance, AttendanceId(userId, sessionId),
                                [attendanceId |-> AttendanceId(userId, sessionId),
                                 userId |-> userId, sessionId |-> sessionId,
                                 timestamp |-> clock, date |-> Today(clock),
                                 status |-> "Present"])
            /\ AttendanceFits(attendance')
            /\ resp' = [op |-> "mark", req |-> [userId |-> userId, sessionId |-> sessionId],
                        status |-> 200,
                        body |-> [success |-> TRUE, message |-> "Attendance marked"]]
    /\ UNCHANGED <<users, sessions, timetable, collection, collectionExists,
                   nextFaceId, s3, clock, ticks, inflight>>

(* POST /student/scan-qr *)
ScanQr(userId, qrData, cameraType) ==
    /\ LET req == [userId |-> userId, qrData |-> qrData, cameraType |-> cameraType] IN
       IF userId = Empty \/ qrData = Empty
       THEN /\ resp' = [op |-> "scanQr", req |-> req, status |-> 400,
                        body |-> [success |-> FALSE, error |-> "Missing fields"]]
            /\ UNCHANGED attendance
       ELSE IF ~HasItem(sessions, qrData)
       THEN /\ resp' = [op |-> "scanQr", req |-> req, status |-> 200,
                        body |-> [success |-> FALSE, error |-> "Invalid QR code"]]
            /\ UNCHANGED attendance
       ELSE IF NowSeconds(clock) > sessions[qrData].expireAt
       THEN /\ resp' = [op |-> "scanQr", req |-> req, status |-> 200,
                        body |-> [success |-> FALSE, error |-> "QR code has expired"]]
            /\ UNCHANGED attendance
       ELSE /\ attendance' = DdbPut(attendance, AttendanceId(userId, qrData),
                                [attendanceId |-> AttendanceId(userId, qrData),
                                 userId |-> userId, sessionId |-> qrData,
                                 timestamp |-> clock, date |-> Today(clock),
                                 status |-> "Present", method |-> "qr_scan",
                                 cameraUsed |->
                                     IF cameraType = "" THEN "unknown" ELSE cameraType])
            /\ AttendanceFits(attendance')
            /\ resp' = [op |-> "scanQr", req |-> req, status |-> 200,
                        body |-> [success |-> TRUE, classId |-> sessions[qrData].classId]]
    /\ UNCHANGED <<users, sessions, timetable, collection, collectionExists,
                   nextFaceId, s3, clock, ticks, inflight>>

(* POST /teacher/submit-attendance *)

\* The session identifier as it would be if the supplied one were ignored.
FinalSessionIdFresh(sessionId, classId, now) ==
    <<"M", "A", "N", "U", "A", "L", "-">> \o classId \o <<"-">> \o NumToString(now)

\* sessionId || `MANUAL-${classId}-${Date.now()}`
FinalSessionId(sessionId, classId, now) ==
    IF sessionId # Empty THEN sessionId
    ELSE <<"M", "A", "N", "U", "A", "L", "-">> \o classId \o <<"-">> \o NumToString(now)

\* The record submit-attendance puts for one student.
ManualRecord(studentId, finalSessionId, teacherId, now) ==
    [attendanceId |-> AttendanceId(studentId, finalSessionId), userId |-> studentId,
     sessionId |-> finalSessionId, timestamp |-> now, date |-> Today(now),
     status |-> "Present", markedBy |-> teacherId, method |-> "manual"]

\* The puts as they would be if the first failure stopped the ones after it.
RECURSIVE PutAllInOrder(_, _, _, _, _, _, _)
PutAllInOrder(table, items, n, finalSessionId, teacherId, now, failed) ==
    IF n = 0 THEN table
    ELSE IF \E i \in failed : i <= n
    THEN PutAllInOrder(table, items, n - 1, finalSessionId, teacherId, now, failed)
    ELSE DdbPut(PutAllInOrder(table, items, n - 1, finalSessionId, teacherId, now, failed),
                AttendanceId(items[n], finalSessionId),
                ManualRecord(items[n], finalSessionId, teacherId, now))

\* The table after the puts for the students items[1..n]: presentStudents.map
\* issues one put per student, each on its own; the puts whose index is in
\* `failed` are rejected by DynamoDB and write nothing, the others are written.
RECURSIVE PutAll(_, _, _, _, _, _, _)
PutAll(table, items, n, finalSessionId, teacherId, now, failed) ==
    IF n = 0 THEN table
    ELSE IF n \in failed
    THEN PutAll(table, items, n - 1, finalSessionId, teacherId, now, failed)
    ELSE DdbPut(PutAll(table, items, n - 1, finalSessionId, teacherId, now, failed),
                AttendanceId(items[n], finalSessionId),
                ManualRecord(items[n], finalSessionId, teacherId, now))

\* `failed` names the puts DynamoDB rejects.  Promise.all rejects when any put
\* does, and the catch answers 500; nothing undoes the puts that went through.
SubmitAttendance(teacherId, classId, presentStudents, sessionId, failed) ==
    /\ LET req == [teacherId |-> teacherId, classId |-> classId,
                   presentStudents |-> presentStudents, sessionId |-> sessionId]
       IN
       IF teacherId = Empty \/ classId = Empty \/ ~presentStudents.array
       THEN /\ resp' = [op |-> "submitAttendance", req |-> req, status |-> 400,
                        body |-> [success |-> FALSE, error |-> "Missing required fields"]]
            /\ UNCHANGED attendance
       ELSE LET final == FinalSessionId(sessionId, classId, clock) IN
            /\ attendance' = PutAll(attendance, presentStudents.items,
                                    Len(presentStudents.items), final, teacherId, clock,
                                    failed)
            /\ AttendanceFits(attendance')
            /\ IF failed = {}
               THEN resp' = [op |-> "submitAttendance", req |-> req, status |-> 200,
                             body |-> [success |-> TRUE,
                                       presentCount |-> Len(presentStudents.items),
                                       sessionId |-> final]]
               ELSE resp' = [op |-> "submitAttendance", req |-> req, status |-> 500,
                             body |-> [success |-> FALSE,
                                       error |-> "ProvisionedThroughputExceededException"],
                             failed |-> failed]
    /\ UNCHANGED <<users, sessions, timetable, collection, collectionExists,
                   nextFaceId, s3, clock, ticks, inflight>>

DoGenerateQr ==
    \E req \in GenerateQrRequests : GenerateQr(req.teacherId, req.classId)

DoMark ==
    \E req \in MarkRequests : Mark(req.userId, req.sessionId)

DoScanQr ==
    \E req \in ScanQrRequests : ScanQr(req.userId, req.qrData, req.cameraType)

DoSubmitAttendance ==
    \E req \in SubmitRequests :
       SubmitAttendance(req.teacherId, req.classId, req.presentStudents, req.sessionId, {})

\* submit-attendance with one or more of its puts rejected.
DoSubmitAttendanceFailing ==
    \E req \in SubmitRequests :
       \E failed \in (SUBSET (1..Len(req.presentStudents.items))) \ {{}} :
          SubmitAttendance(req.teacherId, req.classId, req.presentStudents,
                           req.sessionId, failed)

\* The attendance handlers read and write the AttendanceSessions and Attendance
\* tables only, which no other handler touches.
NextAttendance == Tick \/ DoGenerateQr \/ DoMark \/ DoScanQr \/ DoSubmitAttendance

SpecAttendance == InitCollectionCreated /\ [][NextAttendance]_vars

\* The manual path with DynamoDB rejecting some of its puts.
NextSubmit == DoGenerateQr \/ DoSubmitAttendance \/ DoSubmitAttendanceFailing

SpecSubmit == InitCollectionCreated /\ [][NextSubmit]_vars

\* A user identifier with "-" in it.  No marking handler looks the user up or
\* checks the form of userId: it is whatever string the request body carries.
S1Class == <<"s", "1", "-", "C", "L", "A", "S", "S">>

\* What follows "CLASS-" in a generated session identifier.
AfterClassPrefix(sessionId) == SubSeq(sessionId, 7, Len(sessionId))

\* attendance/mark for a generated session, by s1 and by s1-CLASS.
DoMarkAnyUser ==
    \E u \in {S1, S1Class} : \E q \in DOMAIN sessions : Mark(u, q)

\* student/scan-qr for a generated session, by s1 and by s1-CLASS.
DoScanQrAnyUser ==
    \E u \in {S1, S1Class} : \E q \in DOMAIN sessions : ScanQr(u, q, "back")

\* submit-attendance for the students s1-CLASS and s2, with the sessionId of the
\* body a generated session identifier or that identifier without its "CLASS-".
\* The handler takes any sessionId the body carries.
DoSubmitAnySession ==
    \E q \in DOMAIN sessions : \E sid \in {q, AfterClassPrefix(q)} :
       SubmitAttendance(T1, CS, StudentList(<<S1Class, S2>>), sid, {})

\* The three marking handlers with user identifiers that contain "-".
NextAttendanceIds ==
    Tick \/ DoGenerateQr \/ DoMarkAnyUser \/ DoScanQrAnyUser \/ DoSubmitAnySession

SpecAttendanceIds == InitCollectionCreated /\ [][NextAttendanceIds]_vars

-----------------------------------------------------------------------------
(* The timetable                                                              *)

Monday == <<"M", "o", "n">>
NineAm == <<"0", "9", ":", "0", "0">>
TenAm == <<"1", "0", ":", "0", "0">>
ElevenAm == <<"1", "1", ":", "0", "0">>
UnknownTimetable == <<"X", "-", "M", "o", "n", "-", "0", "8", ":", "0", "0">>

\* The timetable requests: an entry with a named teacher, an entry whose
\* teacherId names no user and carries no teacher name, and a request with a
\* field missing.
TimetableRequests ==
    { [classId |-> CS, className |-> "Algo", teacherId |-> TEACH001,
       teacherName |-> "Ms T", dayOfWeek |-> Monday, startTime |-> NineAm,
       endTime |-> TenAm, subject |-> "cs", room |-> "R1"],
      [classId |-> CS, className |-> "Algo", teacherId |-> UnknownId,
       teacherName |-> "", dayOfWeek |-> Monday, startTime |-> TenAm,
       endTime |-> ElevenAm, subject |-> "cs", room |-> ""],
      [classId |-> CS, className |-> "Algo", teacherId |-> TEACH001,
       teacherName |-> "Ms T", dayOfWeek |-> Monday, startTime |-> NineAm,
       endTime |-> TenAm, subject |-> "", room |-> ""] }

\* The timetable identifiers requests carry: every entry, and one of no entry.
TimetableIdInputs == (DOMAIN timetable) \cup {UnknownTimetable}

\* The assign-teacher requests: every registered user or a user of no record
\* for every timetable identifier, one request naming the teacher, and requests
\* with a field missing.
AssignRequests ==
    { [timetableId |-> t, teacherId |-> u, teacherName |-> ""] :
         t \in TimetableIdInputs, u \in Registered \cup {UnknownId} }
    \cup
    { [timetableId |-> t, teacherId |-> u, teacherName |-> "Dr N"] :
         t \in {UnknownTimetable}, u \in Registered }
    \cup
    { [timetableId |-> Empty, teacherId |-> UnknownId, teacherName |-> ""],
      [timetableId |-> UnknownTimetable, teacherId |-> Empty, teacherName |-> ""] }

\* `${classId}-${dayOfWeek}-${startTime}`
TimetableId(classId, dayOfWeek, startTime) ==
    classId \o <<"-">> \o dayOfWeek \o <<"-">> \o startTime

\* A write of this key into the Timetable table fits the model's bound.
TimetableFits(key) ==
    key \in DOMAIN timetable \/ Cardinality(DOMAIN timetable) < MaxTimetable

\* The required fields of /admin/timetable.
TimetableMissing(req) ==
    \/ req.classId = Empty \/ req.className = "" \/ req.teacherId = Empty
    \/ req.dayOfWeek = Empty \/ req.startTime = Empty \/ req.endTime = Empty
    \/ req.subject = ""

(* POST /admin/timetable *)
UpsertTimetable(req) ==
    /\ IF TimetableMissing(req)
       THEN /\ resp' = [op |-> "timetable", req |-> req, status |-> 400,
                        body |-> [success |-> FALSE, error |-> "Missing required fields"]]
            /\ UNCHANGED timetable
       ELSE LET timetableId == TimetableId(req.classId, req.dayOfWeek, req.startTime) IN
            /\ TimetableFits(timetableId)
            /\ timetable' = DdbPut(timetable, timetableId,
                  [timetableId |-> timetableId, classId |-> req.classId,
                   className |-> req.className, teacherId |-> req.teacherId,
                   teacherName |-> (IF req.teacherName # "" THEN req.teacherName
                                    ELSE "Unknown Teacher"),
                   dayOfWeek |-> req.dayOfWeek, startTime |-> req.startTime,
                   endTime |-> req.endTime, subject |-> req.subject,
                   room |-> req.room, createdAt |-> clock, isActive |-> TRUE])
            /\ resp' = [op |-> "timetable", req |-> req, status |-> 200,
                        body |-> [success |-> TRUE, timetableId |-> timetableId]]
    /\ UNCHANGED <<users, sessions, attendance, collection, collectionExists,
                   nextFaceId, s3, clock, ticks, inflight>>

(* DELETE /admin/timetable/:timetableId *)
DeleteTimetable(timetableId) ==
    /\ TimetableFits(timetableId)
    /\ timetable' = DdbUpdate(timetable, "timetableId", timetableId,
                              [isActive |-> FALSE])
    /\ resp' = [op |-> "deleteTimetable", req |-> [timetableId |-> timetableId],
                status |-> 200,
                body |-> [success |-> TRUE, message |-> "Timetable entry deleted"]]
    /\ UNCHANGED <<users, sessions, attendance, collection, collectionExists,
                   nextFaceId, s3, clock, ticks, inflight>>

\* The check of assign-teacher with the role comparison left out.
TeacherFoundAnyRole(teacherId) == HasItem(users, teacherId)

\* !(!teacher || teacher.role !== 'teacher')
TeacherFound(teacherId) ==
    HasItem(users, teacherId) /\ users[teacherId].role = "teacher"

\* teacherName || teacher.name
AssignedName(req) ==
    IF req.teacherName # "" THEN req.teacherName ELSE users[req.teacherId].name

(* POST /admin/assign-teacher *)
AssignTeacher(req) ==
    /\ IF req.timetableId = Empty \/ req.teacherId = Empty
       THEN /\ resp' = [op |-> "assignTeacher", req |-> req, status |-> 400,
                        body |-> [success |-> FALSE,
                                  error |-> "Timetable ID and Teacher ID are required"]]
            /\ UNCHANGED timetable
       ELSE IF ~TeacherFound(req.teacherId)
       THEN /\ resp' = [op |-> "assignTeacher", req |-> req, status |-> 404,
                        body |-> [success |-> FALSE,
                                  error |-> "Teacher not found or invalid role"]]
            /\ UNCHANGED timetable
       ELSE /\ TimetableFits(req.timetableId)
            /\ timetable' = DdbUpdate(timetable, "timetableId", req.timetableId,
                                [teacherId |-> req.teacherId,
                                 teacherName |-> AssignedName(req),
                                 assignedAt |-> clock])
            /\ resp' = [op |-> "assignTeacher", req |-> req, status |-> 200,
                        body |-> [success |-> TRUE, teacher |-> AssignedName(req)]]
    /\ UNCHANGED <<users, sessions, attendance, collection, collectionExists,
                   nextFaceId, s3, clock, ticks, inflight>>

DoUpsertTimetable == \E req \in TimetableRequests : UpsertTimetable(req)

DoDeleteTimetable == \E t \in TimetableIdInputs : DeleteTimetable(t)

DoAssignTeacher == \E req \in AssignRequests : AssignTeacher(req)

\* Registration, the timetable and the assignment of teachers.  Only register
\* writes the role of a user, and only these handlers write the Timetable table.
NextTimetable ==
    DoRegister \/ DoUpsertTimetable \/ DoDeleteTimetable \/ DoAssignTeacher

SpecTimetable == InitCollectionCreated /\ [][NextTimetable]_vars

(* GET /teacher/classes/:teacherId *)

Tuesday == <<"T", "u", "e", "s", "d", "a", "y">>

\* toLocaleDateString('en-US', { weekday: 'long' })
WeekdayNames ==
    << <<"S", "u", "n", "d", "a", "y">>, <<"M", "o", "n", "d", "a", "y">>, Tuesday,
       <<"W", "e", "d", "n", "e", "s", "d", "a", "y">>,
       <<"T", "h", "u", "r", "s", "d", "a", "y">>, <<"F", "r", "i", "d", "a", "y">>,
       <<"S", "a", "t", "u", "r", "d", "a", "y">> >>

\* The weekday of the server's clock.  The server's time zone is UTC; day 0 of
\* the clock was a Thursday.
Weekday(now) == WeekdayNames[(((now \div 86400000) + 4) % 7) + 1]

\* now.getHours() and now.getMinutes()
Hours(now) == (now \div 3600000) % 24
Minutes(now) == (now \div 60000) % 60

\* getHours().toString().padStart(2, '0') + ':' + getMinutes().toString().padStart(2, '0')
CurrentTime(now) ==
    PadStart(NumToString(Hours(now)), 2, "0") \o <<":">>
       \o PadStart(NumToString(Minutes(now)), 2, "0")

\* The UTF-16 code unit of a character of a time string.
CharCode(c) == IF c = ":" THEN 58 ELSE 48 + (CHOOSE d \in 0..9 : DigitChar[d + 1] = c)

\* a < b on strings: the first differing code unit decides, a proper prefix is less.
RECURSIVE StrLess(_, _)
StrLess(a, b) ==
    IF b = <<>> THEN FALSE
    ELSE IF a = <<>> THEN TRUE
    ELSE IF a[1] = b[1] THEN StrLess(Tail(a), Tail(b))
    ELSE CharCode(a[1]) < CharCode(b[1])

\* The rank of a character in the collation of localeCompare: punctuation
\* sorts before the digits.
CollationRank(c) == IF c = ":" THEN 0 ELSE 1 + (CHOOSE d \in 0..9 : DigitChar[d + 1] = c)

\* a.localeCompare(b) <= 0
RECURSIVE LocaleLeq(_, _)
LocaleLeq(a, b) ==
    IF a = <<>> THEN TRUE
    ELSE IF b = <<>> THEN FALSE
    ELSE IF a[1] = b[1] THEN LocaleLeq(Tail(a), Tail(b))
    ELSE CollationRank(a[1]) < CollationRank(b[1])

\* FilterExpression 'teacherId = :tid AND dayOfWeek = :day AND isActive = :active':
\* an item without one of the attributes does not pass.
ClassesOfToday(teacherId, today) ==
    { k \in DOMAIN timetable :
         /\ {"teacherId", "dayOfWeek", "isActive"} \subseteq DOMAIN timetable[k]
         /\ timetable[k].teacherId = teacherId
         /\ timetable[k].dayOfWeek = today
         /\ timetable[k].isActive = TRUE }

\* classes.sort((a, b) => a.startTime.localeCompare(b.startTime)): the orders
\* of the keys the sort can leave, whatever order the scan returned them in.
SortedByStartTime(keys) ==
    { order \in [1..Cardinality(keys) -> keys] :
         /\ \A i, j \in 1..Cardinality(keys) : i # j => order[i] # order[j]
         /\ \A i, j \in 1..Cardinality(keys) :
               i < j => LocaleLeq(timetable[order[i]].startTime,
                                  timetable[order[j]].startTime) }

\* isCompleted as it would be with >= in place of >.
IsCompletedInclusive(currentTime, cls) == ~StrLess(currentTime, cls.endTime)

\* currentTime >= cls.startTime && currentTime <= cls.endTime
CanTakeAttendance(currentTime, cls) ==
    ~StrLess(currentTime, cls.startTime) /\ ~StrLess(cls.endTime, currentTime)

\* currentTime < cls.startTime
IsUpcoming(currentTime, cls) == StrLess(currentTime, cls.startTime)

\* currentTime > cls.endTime
IsCompleted(currentTime, cls) == StrLess(cls.endTime, currentTime)

\* { ...cls, canTakeAttendance, isUpcoming, isCompleted }
Enriched(cls, currentTime) ==
    Merge(cls, [canTakeAttendance |-> CanTakeAttendance(currentTime, cls),
                isUpcoming |-> IsUpcoming(currentTime, cls),
                isCompleted |-> IsCompleted(currentTime, cls)])

TeacherClasses(teacherId) ==
    /\ \E order \in SortedByStartTime(ClassesOfToday(teacherId, Weekday(clock))) :
          resp' = [op |-> "teacherClasses", req |-> [teacherId |-> teacherId],
                   status |-> 200,
                   body |-> [success |-> TRUE,
                             classes |-> [i \in DOMAIN order |->
                                            Enriched(timetable[order[i]],
                                                     CurrentTime(clock))],
                             today |-> Weekday(clock),
                             currentTime |-> CurrentTime(clock)]]
    /\ UNCHANGED <<users, sessions, attendance, timetable, collection,
                   collectionExists, nextFaceId, s3, clock, ticks, inflight>>

\* The times of day the listing requests are about.  The server starts at 16:13
\* and its clock advances by ten minutes.
T1600 == <<"1", "6", ":", "0", "0">>
T1613 == <<"1", "6", ":", "1", "3">>
T1620 == <<"1", "6", ":", "2", "0">>
T1623 == <<"1", "6", ":", "2", "3">>
T1630 == <<"1", "6", ":", "3", "0">>

\* /admin/timetable requests for a Tuesday: a class that starts at the server's
\* start time, one that ends ten minutes after it, one whose startTime is after
\* its endTime, one on a Monday, and a request with a field missing.
ClassTimeRequests ==
    { [classId |-> CS, className |-> "Algo", teacherId |-> TEACH001,
       teacherName |-> "Ms T", dayOfWeek |-> d, startTime |-> t[1],
       endTime |-> t[2], subject |-> "cs", room |-> "R1"] :
         d \in {Tuesday},
         t \in {<<T1613, T1620>>, <<T1620, T1623>>, <<T1630, T1600>>} }
    \cup
    { [classId |-> CS, className |-> "Algo", teacherId |-> TEACH001,
       teacherName |-> "Ms T", dayOfWeek |-> WeekdayNames[2], startTime |-> T1613,
       endTime |-> T1620, subject |-> "cs", room |-> "R1"],
      [classId |-> CS, className |-> "Algo", teacherId |-> TEACH001,
       teacherName |-> "Ms T", dayOfWeek |-> Tuesday, startTime |-> T1613,
       endTime |-> Empty, subject |-> "cs", room |-> "R1"] }

DoUpsertClassTimes == \E req \in ClassTimeRequests : UpsertTimetable(req)

DoTeacherClasses == \E t \in {TEACH001, UnknownId} : TeacherClasses(t)

\* The timetable of one teacher and its listing as the clock advances.
NextClasses == Tick \/ DoUpsertClassTimes \/ DoDeleteTimetable \/ DoTeacherClasses

SpecClasses == Init /\ [][NextClasses]_vars

-----------------------------------------------------------------------------
(* The claims about registration, approval and authentication *)

\* A register request that passed validation.
RegisterStep == resp'.op = "register" /\ ~RegisterMissing(resp'.req)

\* C1: every register request whose photograph matches a face of the index at
\* or above the 80% threshold is answered 409 DUPLICATE_FACE and leaves the
\* Users table unchanged.
C1_DuplicateFaceRejected ==
    [][(RegisterStep /\ Matching(ImageBuffer(resp'.req.imageBase64), RegisterThreshold) # {})
          => (resp'.status = 409 /\ resp'.body.code = "DUPLICATE_FACE" /\ users' = users)]_vars

\* C2: over any sequence of register and approve requests, at most one user
\* identifier carrying a given face is approved and indexed in the collection.
C2_OneIndexedRegistrationPerFace ==
    \A f, g \in collection :
       (f.image = g.image /\ IsTrue(users[f.ExternalImageId], "approved")
                          /\ IsTrue(users[g.ExternalImageId], "approved"))
          => f.ExternalImageId = g.ExternalImageId

\* C6: once a register request with photograph P has succeeded, a register
\* request with the same photograph and another name, email and role is answered
\* 409 DUPLICATE_FACE, approval of the first or not.
C6_SecondRegistrationRejected ==
    [][(RegisterStep
          /\ \E u \in Registered :
                /\ users[u].faceImage = resp'.req.imageBase64
                /\ users[u].name # resp'.req.name
                /\ users[u].email # resp'.req.email
                /\ users[u].role # resp'.req.role)
          => (resp'.status = 409 /\ resp'.body.code = "DUPLICATE_FACE")]_vars

\* C8: a login request carrying all its fields is answered 404 when no user has
\* the identifier, else 401 when the user is not approved, else 401 when the
\* stored password differs, else 200 with the identifier and the role; a login
\* never changes a table.
C8_LoginOrder ==
    [][resp'.op = "login" =>
         LET r == resp'.req IN
         /\ UNCHANGED <<users, sessions, attendance, timetable, collection, s3>>
         /\ (r.userId # Empty /\ r.password # "" /\ r.role # "") =>
              /\ ~HasItem(users, r.userId) => resp'.status = 404
              /\ (HasItem(users, r.userId) /\ ~IsTrue(users[r.userId], "approved"))
                    => (resp'.status = 401 /\ resp'.body.error = "User not approved")
              /\ (/\ HasItem(users, r.userId)
                  /\ IsTrue(users[r.userId], "approved")
                  /\ users[r.userId].password # r.password)
                    => (resp'.status = 401 /\ resp'.body.error = "Incorrect password")
              /\ (/\ HasItem(users, r.userId)
                  /\ IsTrue(users[r.userId], "approved")
                  /\ users[r.userId].password = r.password)
                    => (/\ resp'.status = 200
                        /\ resp'.body = [success |-> TRUE, userId |-> r.userId,
                                         role |-> r.role])
              /\ resp'.body.success =>
                    (/\ HasItem(users, r.userId)
                     /\ IsTrue(users[r.userId], "approved")
                     /\ users[r.userId].password = r.password)]_vars

\* C8, its case: a login of a user who was approved and then rejected is refused
\* although the password is the stored one.
C8_Witness ==
    /\ resp.op = "login"
    /\ resp.status = 401
    /\ HasItem(users, resp.req.userId)
    /\ "password" \in DOMAIN users[resp.req.userId]
    /\ users[resp.req.userId].password = resp.req.password

\* C9: a face verification for an existing user is answered success exactly
\* when a candidate the search returned carries the user's identifier as its
\* external reference; a candidate of another user, or none, is answered 200
\* with success false and "Face not matched"; an unknown user is answered 404.
C9_VerifyFaceOwnMatchOnly ==
    [][(resp'.op = "verifyFace" /\ resp'.req.userId # Empty
                                /\ ~ImageMissing(resp'.req.imageBase64)) =>
         LET r == resp'.req
             m == resp'.search.FaceMatches
         IN
         /\ ~HasItem(users, r.userId) => resp'.status = 404
         /\ (HasItem(users, r.userId) /\ resp'.search.name = "ok") =>
              /\ resp'.status = 200
              /\ resp'.body.success <=>
                    \E i \in 1..Len(m) : m[i].ExternalImageId = r.userId
              /\ ~resp'.body.success => resp'.body.message = "Face not matched"
         /\ resp'.body.success =>
              \E f \in collection :
                 /\ f.ExternalImageId = r.userId
                 /\ Similarity(f.image, ImageBuffer(r.imageBase64)) >= FACE_MATCH_THRESHOLD
         /\ UNCHANGED <<users, collection, s3>>]_vars

\* C9, its case: the search returned a candidate, it belongs to another user, and
\* the answer is 200 with success false.
C9_Witness ==
    /\ resp.op = "verifyFace"
    /\ resp.status = 200
    /\ ~resp.body.success
    /\ Len(resp.search.FaceMatches) = 1
    /\ resp.search.FaceMatches[1].ExternalImageId # resp.req.userId

-----------------------------------------------------------------------------
(* The claims about attendance *)

\* The digits after the last "-" of an identifier, as a number: the Date.now()
\* that generate-qr wrote into the session identifier.
DigitValue(c) == CHOOSE d \in 0..9 : DigitChar[d + 1] = c

RECURSIVE ParseInt(_)
ParseInt(s) ==
    IF s = <<>> THEN 0
    ELSE ParseInt(SubSeq(s, 1, Len(s) - 1)) * 10 + DigitValue(s[Len(s)])

CreatedAt(sessionId) ==
    LET dashes == {i \in 1..Len(sessionId) : sessionId[i] = "-"}
        last == CHOOSE i \in dashes : \A j \in dashes : j <= i
    IN  ParseInt(SubSeq(sessionId, last + 1, Len(sessionId)))

\* A mark or scan-qr request that carries its fields, and the session it names.
MarkOrScanStep ==
    \/ resp'.op = "mark" /\ resp'.req.userId # Empty /\ resp'.req.sessionId # Empty
    \/ resp'.op = "scanQr" /\ resp'.req.userId # Empty /\ resp'.req.qrData # Empty

SessionNamed == IF resp'.op = "mark" THEN resp'.req.sessionId ELSE resp'.req.qrData

\* C3: a mark or scan-qr request naming a session that does not exist, or one
\* whose expireAt is less than the current time in seconds, is answered
\* success=false (invalid, resp. expired) and leaves the Attendance table
\* unchanged; a record is written only when the session exists and the current
\* second is at most expireAt, and then it is written.
C3_SessionMustBeLive ==
    [][MarkOrScanStep =>
         LET q == SessionNamed
             now == clock \div 1000
         IN
         /\ ~HasItem(sessions, q) =>
              /\ ~resp'.body.success
              /\ resp'.body.error =
                    (IF resp'.op = "mark" THEN "Invalid session" ELSE "Invalid QR code")
              /\ attendance' = attendance
         /\ (HasItem(sessions, q) /\ now > sessions[q].expireAt) =>
              /\ ~resp'.body.success
              /\ resp'.body.error =
                    (IF resp'.op = "mark" THEN "Session expired" ELSE "QR code has expired")
              /\ attendance' = attendance
         /\ (HasItem(sessions, q) /\ now <= sessions[q].expireAt) =>
              /\ resp'.body.success
              /\ HasItem(attendance', resp'.req.userId \o <<"-">> \o q)
         /\ attendance' # attendance =>
              (HasItem(sessions, q) /\ now <= sessions[q].expireAt)]_vars

\* C3, its case: a mark request for a session that exists was refused as
\* expired, 601 seconds after the session was generated.
C3_Witness ==
    /\ resp.op = "mark"
    /\ resp.status = 200
    /\ "error" \in DOMAIN resp.body
    /\ resp.body.error = "Session expired"
    /\ clock - CreatedAt(resp.req.sessionId) = 601000

\* The (user, session) pairs a successful marking request marks.
PairsMarked ==
    IF resp'.op = "mark" THEN {<<resp'.req.userId, resp'.req.sessionId>>}
    ELSE IF resp'.op = "scanQr" THEN {<<resp'.req.userId, resp'.req.qrData>>}
    ELSE {<<resp'.req.presentStudents.items[i], resp'.body.sessionId>> :
             i \in 1..Len(resp'.req.presentStudents.items)}

\* C4: after any marking through attendance/mark, student/scan-qr or
\* teacher/submit-attendance the Attendance table holds at most one record per
\* (userId, sessionId) pair: the marking writes the record of the pair at the
\* identifier userId-sessionId, replacing the record that was there, and adds
\* no other row.
C4_OneRecordPerPair ==
    [][(resp'.op \in {"mark", "scanQr", "submitAttendance"} /\ resp'.body.success) =>
         /\ \A a, b \in DOMAIN attendance' :
               (/\ attendance'[a].userId = attendance'[b].userId
                /\ attendance'[a].sessionId = attendance'[b].sessionId) => a = b
         /\ DOMAIN attendance' =
               (DOMAIN attendance) \cup {p[1] \o <<"-">> \o p[2] : p \in PairsMarked}
         /\ \A p \in PairsMarked :
               LET rec == attendance'[p[1] \o <<"-">> \o p[2]] IN
               /\ rec.userId = p[1]
               /\ rec.sessionId = p[2]
               /\ rec.timestamp = clock
               /\ rec.status = "Present"
               /\ resp'.op = "mark" => "method" \notin DOMAIN rec
               /\ resp'.op = "scanQr" => rec.method = "qr_scan"
               /\ resp'.op = "submitAttendance" => rec.method = "manual"
         /\ \A k \in DOMAIN attendance :
               k \notin {p[1] \o <<"-">> \o p[2] : p \in PairsMarked}
                  => attendance'[k] = attendance[k]]_vars

\* C4, its case: the pair (s1, session) was marked by submit-attendance together
\* with s2 and then again by attendance/mark: the table holds the record of
\* attendance/mark for s1, and two rows in all.
C4_Witness ==
    /\ resp.op = "mark"
    /\ resp.body.success
    /\ HasItem(attendance, S2 \o <<"-">> \o resp.req.sessionId)
    /\ attendance[S2 \o <<"-">> \o resp.req.sessionId].method = "manual"
    /\ "method" \notin DOMAIN attendance[S1 \o <<"-">> \o resp.req.sessionId]
    /\ Cardinality(DOMAIN attendance) = 2

\* C5: a session generated at time T expires 600 seconds after T: a scan-qr
\* issued d whole seconds after T is answered success and writes a record with
\* method qr_scan when d <= 600, and is answered "expired" and writes nothing
\* when d >= 601.
C5_SixHundredSeconds ==
    [][(/\ resp'.op = "scanQr"
        /\ resp'.req.userId # Empty
        /\ HasItem(sessions, resp'.req.qrData)
        /\ (clock - CreatedAt(resp'.req.qrData)) % 1000 = 0) =>
         LET q == resp'.req.qrData
             T == CreatedAt(q)
             d == (clock - T) \div 1000
         IN
         /\ sessions[q].expireAt = (T \div 1000) + 600
         /\ d <= 600 =>
              /\ resp'.status = 200 /\ resp'.body.success
              /\ attendance'[resp'.req.userId \o <<"-">> \o q].method = "qr_scan"
         /\ d >= 601 =>
              /\ ~resp'.body.success
              /\ resp'.body.error = "QR code has expired"
              /\ attendance' = attendance]_vars

\* C5, its case: a scan-qr exactly 601 seconds after the session was generated
\* was refused as expired.
C5_Witness ==
    /\ resp.op = "scanQr"
    /\ "error" \in DOMAIN resp.body
    /\ resp.body.error = "QR code has expired"
    /\ clock - CreatedAt(resp.req.qrData) = 601000

\* C5, the other side: a scan-qr exactly 600 seconds after the session was
\* generated succeeded.
C5_WitnessInTime ==
    /\ resp.op = "scanQr"
    /\ resp.body.success
    /\ clock - CreatedAt(resp.req.qrData) = 600000

-----------------------------------------------------------------------------
(* The claims about the timetable *)

\* C7: assign-teacher with a teacherId that names no user, or a user whose role
\* is not "teacher", is answered 404 and leaves the Timetable table unchanged;
\* it overwrites teacherId, teacherName and assignedAt of the entry, and only
\* those, when the user exists with role teacher, and only then changes the
\* table.
C7_AssignOnlyTeachers ==
    [][(/\ resp'.op = "assignTeacher"
        /\ resp'.req.timetableId # Empty
        /\ resp'.req.teacherId # Empty) =>
         LET t == resp'.req.timetableId
             u == resp'.req.teacherId
             isTeacher == u \in DOMAIN users /\ users[u].role = "teacher"
         IN
         /\ ~isTeacher =>
              /\ resp'.status = 404
              /\ ~resp'.body.success
              /\ timetable' = timetable
         /\ timetable' # timetable => isTeacher
         /\ isTeacher =>
              /\ resp'.status = 200
              /\ resp'.body.success
              /\ timetable'[t].teacherId = u
              /\ timetable'[t].teacherName =
                    (IF resp'.req.teacherName # "" THEN resp'.req.teacherName
                     ELSE users[u].name)
              /\ timetable'[t].assignedAt = clock
              /\ \A k \in DOMAIN timetable : k # t => timetable'[k] = timetable[k]
              /\ t \in DOMAIN timetable =>
                    \A a \in DOMAIN timetable[t] :
                       a \notin {"teacherId", "teacherName", "assignedAt"}
                          => timetable'[t][a] = timetable[t][a]]_vars

\* C7, its case: assign-teacher named a user who exists with another role, for
\* an entry the timetable holds, and was answered 404.
C7_Witness ==
    /\ resp.op = "assignTeacher"
    /\ resp.status = 404
    /\ resp.req.teacherId \in DOMAIN users
    /\ users[resp.req.teacherId].role # "teacher"
    /\ resp.req.timetableId \in DOMAIN timetable
    /\ "assignedAt" \notin DOMAIN timetable[resp.req.timetableId]

-----------------------------------------------------------------------------
(* The claims about repeated approval and identifiers *)

\* The faces of a collection tagged with a user identifier.
FacesOf(coll, userId) == {f \in coll : f.ExternalImageId = userId}

\* C11: approve has no guard on prior approval: an approve request for a user
\* who holds a photograph succeeds whether or not the user is approved already,
\* and every successful approve adds one face tagged with the user identifier,
\* so a second approve leaves two entries with that tag.
C11_ApproveTwiceIndexesTwice ==
    [][(/\ resp'.op = "approve"
        /\ resp'.req.userId # Empty /\ resp'.req.password # ""
        /\ HasItem(users, resp'.req.userId)
        /\ ~NoFaceImage(users[resp'.req.userId])
        /\ collectionExists) =>
         LET u == resp'.req.userId IN
         /\ resp'.status = 200 /\ resp'.body.success
         /\ Cardinality(FacesOf(collection', u)) = Cardinality(FacesOf(collection, u)) + 1
         /\ IsTrue(users[u], "approved") => Cardinality(FacesOf(collection', u)) >= 2]_vars

\* C11, its case: the second approve of a user succeeded and the collection
\* holds two faces tagged with that user.
C11_Witness ==
    /\ resp.op = "approve"
    /\ resp.status = 200
    /\ Cardinality(FacesOf(collection, resp.req.userId)) = 2

\* C12: in every reachable state the collection holds at most one face per
\* registered user identifier.
C12_OneFacePerUser ==
    \A u \in DOMAIN users : Cardinality(FacesOf(collection, u)) <= 1

\* C13: the identifier of every successful register is 11 decimal digits: "1"
\* for role student and "2" for every other role, then the last 8 digits of the
\* millisecond clock, then the random number padded to 2 digits.
C13_IdentifierFormat ==
    [][(resp'.op = "register" /\ resp'.body.success) =>
         LET id == resp'.body.userId
             digits == {DigitChar[i] : i \in 1..10}
         IN
         /\ Len(id) = 11
         /\ \A i \in 1..11 : id[i] \in digits
         /\ id[1] = (IF resp'.req.role = "student" THEN "1" ELSE "2")
         /\ ParseInt(SubSeq(id, 2, 9)) = clock % 100000000
         /\ ParseInt(SubSeq(id, 10, 11)) \in 0..99
         /\ HasItem(users', id) /\ users'[id].userId = id]_vars

\* C13, its case: a register with role admin at a clock whose last eight digits
\* start with zeros, with a one-digit random number, got an identifier "2...".
C13_Witness ==
    /\ resp.op = "register"
    /\ resp.status = 200
    /\ resp.req.role = "admin"
    /\ clock = 1700000005
    /\ resp.body.userId = <<"2", "0", "0", "0", "0", "0", "0", "0", "5", "0", "7">>

-----------------------------------------------------------------------------
(* The claims about the manual path *)

\* The session a submit-attendance request writes to, at the current clock.
SessionWritten(req) ==
    IF req.sessionId # Empty THEN req.sessionId
    ELSE <<"M", "A", "N", "U", "A", "L", "-">> \o req.classId \o <<"-">>
            \o NumToString(clock)

\* The record of student i of the list is the one this request writes.
WrittenNow(table, req, i) ==
    LET id == req.presentStudents.items[i] \o <<"-">> \o SessionWritten(req) IN
    /\ HasItem(table, id)
    /\ table[id].userId = req.presentStudents.items[i]
    /\ table[id].sessionId = SessionWritten(req)
    /\ table[id].status = "Present"
    /\ "method" \in DOMAIN table[id] /\ table[id].method = "manual"
    /\ "markedBy" \in DOMAIN table[id] /\ table[id].markedBy = req.teacherId
    /\ table[id].timestamp = clock

\* C14: when submit-attendance answers success for teacher t, class c and list
\* L, every student of L has a record keyed student-sessionId with status
\* Present, method manual and markedBy t, where sessionId is the one supplied,
\* or MANUAL-c-timestamp when none was supplied; presentCount is the length of L.
C14_ManualRecords ==
    [][(resp'.op = "submitAttendance" /\ resp'.body.success) =>
         LET req == resp'.req IN
         /\ resp'.status = 200
         /\ resp'.body.sessionId = SessionWritten(req)
         /\ req.sessionId = Empty =>
               /\ SubSeq(resp'.body.sessionId, 1, 7 + Len(req.classId) + 1) =
                     <<"M", "A", "N", "U", "A", "L", "-">> \o req.classId \o <<"-">>
               /\ CreatedAt(resp'.body.sessionId) = clock
         /\ resp'.body.presentCount = Len(req.presentStudents.items)
         /\ \A i \in 1..Len(req.presentStudents.items) : WrittenNow(attendance', req, i)]_vars

\* C14, its case: a list of two students was submitted for a session that was
\* supplied, and both have their record.
C14_Witness ==
    /\ resp.op = "submitAttendance"
    /\ resp.status = 200
    /\ resp.req.sessionId # Empty
    /\ Len(resp.req.presentStudents.items) = 2
    /\ \A i \in 1..2 : WrittenNow(attendance, resp.req, i)

\* C14, the other case: no session was supplied and the records are keyed by a
\* fresh MANUAL- identifier.
C14_WitnessFresh ==
    /\ resp.op = "submitAttendance"
    /\ resp.status = 200
    /\ resp.req.sessionId = Empty
    /\ Len(resp.req.presentStudents.items) = 2
    /\ Cardinality(DOMAIN attendance) = 2

\* C18: submit-attendance has no rollback and no order across students: when
\* DynamoDB rejects the put of some students of the list, the request is
\* answered 500, the record of every other student of the list is written, and
\* the row of a student whose put failed is as it was before.
C18_NoRollback ==
    [][(resp'.op = "submitAttendance" /\ resp'.status = 500) =>
         LET req == resp'.req
             items == req.presentStudents.items
             key(i) == items[i] \o <<"-">> \o SessionWritten(req)
             written == {key(i) : i \in (1..Len(items)) \ resp'.failed}
         IN
         /\ ~resp'.body.success
         /\ \A i \in (1..Len(items)) \ resp'.failed : WrittenNow(attendance', req, i)
         /\ DOMAIN attendance' = (DOMAIN attendance) \cup written
         /\ \A k \in (DOMAIN attendance) \ written : attendance'[k] = attendance[k]]_vars

\* C18, its case: of a list of two students the put of the first failed, the
\* request was answered 500 and only the second student has a record.
C18_Witness ==
    /\ resp.op = "submitAttendance"
    /\ resp.status = 500
    /\ resp.failed = {1}
    /\ Len(resp.req.presentStudents.items) = 2
    /\ WrittenNow(attendance, resp.req, 2)
    /\ ~HasItem(attendance, resp.req.presentStudents.items[1] \o <<"-">>
                               \o SessionWritten(resp.req))

-----------------------------------------------------------------------------
(* The claims about error responses *)

\* C15: every response with success=false carries the HTTP status of its error
\* class, 400, 401, 404, 409 or 500, and 404 when the request names a session
\* that does not exist; no failure response is sent with a 2xx status.
C15_FailureStatus ==
    [][(resp'.op \in {"mark", "scanQr", "generateQr", "submitAttendance"}
        /\ ~resp'.body.success) =>
         /\ resp'.status \in {400, 401, 404, 409, 500}
         /\ (/\ MarkOrScanStep
             /\ ~HasItem(sessions, SessionNamed)) => resp'.status = 404]_vars

\* C17: in register the only failure of the face search that is taken as "no
\* match" is the collection not existing; any other failure of the search ends
\* the request with HTTP 500 and no user record is created.
C17_SearchFailureIs500 ==
    [][RegisterStep =>
         /\ resp'.search = "ResourceNotFoundException" =>
               (resp'.status = 200 /\ resp'.body.success)
         /\ resp'.search \notin {"ok", "ResourceNotFoundException"} =>
               (resp'.status = 500 /\ ~resp'.body.success /\ users' = users)]_vars

-----------------------------------------------------------------------------
(* The claims about overlapping registrations *)

\* A register request has gone on after a search that found no match, while a
\* pending user with the same face is in the Users table.
SecondOfTwo(u) ==
    /\ resp'.op = "register"
    /\ \E r \in inflight \ inflight' :
          /\ r.req = resp'.req
          /\ r.found.name = "ok" /\ r.found.FaceMatches = <<>>
    /\ ~IsTrue(users[u], "approved")
    /\ ~NoFaceImage(users[u])
    /\ Similarity(ImageBuffer(users[u].faceImage), ImageBuffer(resp'.req.imageBase64))
          >= RegisterThreshold

\* approve is not blocked by what the collection holds.
ApproveNotBlocked ==
    (/\ resp'.op = "approve"
     /\ resp'.req.userId # Empty /\ resp'.req.password # ""
     /\ HasItem(users, resp'.req.userId)
     /\ ~NoFaceImage(users[resp'.req.userId])
     /\ collectionExists) => (resp'.status = 200 /\ resp'.body.success)

\* C16: two register requests with the same face whose searches both ran before
\* either was approved and indexed both succeed; the Users table then holds two
\* pending records with distinct identifiers for that face, and a later approve
\* of either is not blocked by the other.
C16_BothRegistered ==
    [][/\ \A u \in DOMAIN users :
            SecondOfTwo(u) =>
               /\ resp'.status = 200 /\ resp'.body.success
               /\ resp'.body.userId # u
               /\ DOMAIN users' = (DOMAIN users) \cup {resp'.body.userId}
               /\ users'[u] = users[u]
               /\ ~IsTrue(users'[resp'.body.userId], "approved")
       /\ ApproveNotBlocked]_vars

\* The same without the distinctness of the identifiers: both requests are
\* answered success, and the record of the first stays unless the second was
\* given the same identifier.
BothAnsweredSuccess ==
    [][/\ \A u \in DOMAIN users :
            SecondOfTwo(u) =>
               /\ resp'.status = 200 /\ resp'.body.success
               /\ resp'.body.userId # u =>
                     /\ DOMAIN users' = (DOMAIN users) \cup {resp'.body.userId}
                     /\ users'[u] = users[u]
       /\ ApproveNotBlocked]_vars

\* Two pending users with one face, registered while nothing was indexed.
TwoPendingOneFace ==
    /\ collectionExists /\ collection = {}
    /\ \E u, v \in DOMAIN users :
          /\ u # v
          /\ Similarity(ImageBuffer(users[u].faceImage), ImageBuffer(users[v].faceImage))
                >= RegisterThreshold

\* A registration answered success after a user with the same face was approved
\* and indexed: its search had run before.
RegisteredOnStaleSearch ==
    /\ resp.op = "register"
    /\ resp.status = 200
    /\ resp.search = "ok"
    /\ Matching(ImageBuffer(resp.req.imageBase64), RegisterThreshold) # {}

-----------------------------------------------------------------------------
(* The claims about the manual path and the sessions *)

\* A submit-attendance request that carries its fields.
SubmitStep ==
    /\ resp'.op = "submitAttendance"
    /\ resp'.req.teacherId # Empty /\ resp'.req.classId # Empty
    /\ resp'.req.presentStudents.array

\* The record was written through attendance/mark or student/scan-qr.
SelfMarked(rec) == "method" \notin DOMAIN rec \/ rec.method = "qr_scan"

\* C19: submit-attendance never reads the Sessions table: with a session
\* identifier supplied it writes the records of that session also when the
\* session does not exist or has expired, replacing a qr_scan record of the same
\* pair.  Every record written by attendance/mark or student/scan-qr belongs to
\* a session that exists and was written at a second <= its expireAt.
C19_ManualPathUnchecked ==
    [][/\ SubmitStep =>
            /\ sessions' = sessions
            /\ resp'.status = 200
            /\ \A i \in 1..Len(resp'.req.presentStudents.items) :
                  WrittenNow(attendance', resp'.req, i)
       /\ \A k \in DOMAIN attendance' :
            SelfMarked(attendance'[k]) =>
               /\ HasItem(sessions', attendance'[k].sessionId)
               /\ attendance'[k].timestamp \div 1000
                     <= sessions'[attendance'[k].sessionId].expireAt]_vars

\* C19, its case: submit-attendance for a session that exists and has expired
\* was answered success, and the student's record carries a time after expireAt.
C19_Witness ==
    /\ resp.op = "submitAttendance"
    /\ resp.status = 200
    /\ HasItem(sessions, resp.req.sessionId)
    /\ clock \div 1000 > sessions[resp.req.sessionId].expireAt
    /\ Len(resp.req.presentStudents.items) = 2
    /\ WrittenNow(attendance, resp.req, 1)

\* C19, the other case: submit-attendance wrote records for a session that does
\* not exist.
C19_WitnessNoSession ==
    /\ resp.op = "submitAttendance"
    /\ resp.status = 200
    /\ resp.req.sessionId # Empty
    /\ ~HasItem(sessions, resp.req.sessionId)
    /\ Len(resp.req.presentStudents.items) = 2
    /\ WrittenNow(attendance, resp.req, 1)

\* No submit-attendance replaces a qr_scan record after the session expired
\* (this does not hold: the step exists).
NoLateOverwrite ==
    [][~(/\ SubmitStep
         /\ HasItem(sessions, resp'.req.sessionId)
         /\ clock \div 1000 > sessions[resp'.req.sessionId].expireAt
         /\ \E i \in 1..Len(resp'.req.presentStudents.items) :
               LET id == resp'.req.presentStudents.items[i] \o <<"-">> \o resp'.req.sessionId
               IN  /\ HasItem(attendance, id)
                   /\ "method" \in DOMAIN attendance[id]
                   /\ attendance[id].method = "qr_scan"
                   /\ attendance'[id].method = "manual")]_vars

-----------------------------------------------------------------------------
(* The claims about the life of a user record *)

\* C20: approve consults neither approved, rejected nor isActive: for a user
\* who still holds a photograph it succeeds after reject and after removal, it
\* sets approved and leaves rejected as it was, so that register, reject,
\* approve reaches a user with approved=true and rejected=true, and login
\* succeeds for such a user.
C20_ApproveAfterReject ==
    [][/\ (/\ resp'.op = "approve"
           /\ resp'.req.userId # Empty /\ resp'.req.password # ""
           /\ HasItem(users, resp'.req.userId)
           /\ ~NoFaceImage(users[resp'.req.userId])
           /\ collectionExists) =>
            LET u == resp'.req.userId IN
            /\ resp'.status = 200 /\ resp'.body.success
            /\ IsTrue(users'[u], "approved")
            /\ IsTrue(users'[u], "isActive")
            /\ IsTrue(users'[u], "rejected") = IsTrue(users[u], "rejected")
       /\ (/\ resp'.op = "login"
           /\ resp'.req.userId # Empty /\ resp'.req.password # "" /\ resp'.req.role # ""
           /\ HasItem(users, resp'.req.userId)
           /\ IsTrue(users[resp'.req.userId], "approved")
           /\ "password" \in DOMAIN users[resp'.req.userId]
           /\ users[resp'.req.userId].password = resp'.req.password) =>
            (resp'.status = 200 /\ resp'.body.success)]_vars

\* C20, its case: login succeeded for a user whose record says approved and
\* rejected at once.
C20_Witness ==
    /\ resp.op = "login"
    /\ resp.status = 200
    /\ IsTrue(users[resp.req.userId], "approved")
    /\ IsTrue(users[resp.req.userId], "rejected")

\* No approve succeeds for a user that was removed (this does not hold: the
\* step exists).
NoApproveAfterRemoval ==
    [][~(/\ resp'.op = "approve"
         /\ resp'.status = 200
         /\ "isActive" \in DOMAIN users[resp'.req.userId]
         /\ users[resp'.req.userId].isActive = FALSE)]_vars


-----------------------------------------------------------------------------
(* The claims about the attendance identifier                                 *)

\* The string has a "-" in it.
HasHyphen(s) == \E i \in 1..Len(s) : s[i] = "-"

\* The user identifiers and session identifiers the marking requests carry.
MarkedUserInputs == {S1, S2, S1Class}
MarkedSessionInputs == (DOMAIN sessions) \cup {AfterClassPrefix(q) : q \in DOMAIN sessions}

\* The (userId, sessionId) field pair of a record.
PairOf(rec) == <<rec.userId, rec.sessionId>>

\* C21: the attendance identifier is userId, "-", sessionId joined with nothing
\* escaped.  A successful marking of a pair writes its record at that string;
\* when the string held the record of another pair, that record is replaced and
\* no row of the first pair is left.  Two different pairs have the same
\* identifier only if one of the two user identifiers contains "-": among user
\* identifiers without "-" the mapping is injective.
C21_UnescapedConcatenation ==
    [][/\ (resp'.op \in {"mark", "scanQr", "submitAttendance"} /\ resp'.body.success) =>
            \A p \in PairsMarked :
               LET id == p[1] \o <<"-">> \o p[2] IN
               /\ HasItem(attendance', id)
               /\ PairOf(attendance'[id]) = p
               /\ (HasItem(attendance, id) /\ PairOf(attendance[id]) # p) =>
                     /\ \A k \in DOMAIN attendance' :
                           PairOf(attendance'[k]) # PairOf(attendance[id])
                     /\ HasHyphen(p[1]) \/ HasHyphen(attendance[id].userId)
       /\ \A u1, u2 \in MarkedUserInputs : \A q1, q2 \in MarkedSessionInputs :
            (/\ <<u1, q1>> # <<u2, q2>>
             /\ u1 \o <<"-">> \o q1 = u2 \o <<"-">> \o q2) =>
               (HasHyphen(u1) \/ HasHyphen(u2))
       /\ \A k \in DOMAIN attendance' :
            k = attendance'[k].userId \o <<"-">> \o attendance'[k].sessionId]_vars

\* C21, its case: submit-attendance wrote the records of s1-CLASS and s2 for the
\* session identifier without its "CLASS-", and attendance/mark by s1 for the
\* generated session then wrote at the identifier of s1-CLASS: the table holds
\* the record of s2 from that submit and no record of s1-CLASS.
C21_Witness ==
    /\ resp.op = "mark"
    /\ resp.body.success
    /\ resp.req.userId = S1
    /\ LET q == resp.req.sessionId
           tail == AfterClassPrefix(resp.req.sessionId)
       IN
       /\ S1 \o <<"-">> \o q = S1Class \o <<"-">> \o tail
       /\ HasItem(attendance, S2 \o <<"-">> \o tail)
       /\ attendance[S2 \o <<"-">> \o tail].method = "manual"
       /\ HasItem(attendance, S1Class \o <<"-">> \o tail)
       /\ PairOf(attendance[S1Class \o <<"-">> \o tail]) = <<S1, q>>
       /\ \A k \in DOMAIN attendance : attendance[k].userId # S1Class

\* Two different pairs never share an attendance identifier (this does not
\* hold: s1 with CLASS-c-t and s1-CLASS with c-t do).
AttendanceIdInjective ==
    \A u1, u2 \in MarkedUserInputs : \A q1, q2 \in MarkedSessionInputs :
       (u1 \o <<"-">> \o q1 = u2 \o <<"-">> \o q2) => <<u1, q1>> = <<u2, q2>>


-----------------------------------------------------------------------------
(* The claims about the listing of a teacher's classes                        *)

\* The minute of the day a fixed-width HH:MM string names.
MinuteOfDay(t) == ParseInt(SubSeq(t, 1, 2)) * 60 + ParseInt(SubSeq(t, 4, 5))

\* The number of the three flags of a listed class that are true.
FlagsTrue(cls) ==
    (IF cls.canTakeAttendance THEN 1 ELSE 0) + (IF cls.isUpcoming THEN 1 ELSE 0)
       + (IF cls.isCompleted THEN 1 ELSE 0)

\* C22: in the listing of a teacher's classes of today every entry carries
\* canTakeAttendance = (start <= now <= end), isUpcoming = (now < start) and
\* isCompleted = (now > end), the times taken as HH:MM of the day and now being
\* the server's current minute.  For an entry with startTime <= endTime exactly
\* one of the three is true.  /admin/timetable stores an entry with startTime >
\* endTime as it stores any other; for such an entry canTakeAttendance is false,
\* and isUpcoming and isCompleted are both true when end < now < start.
C22_ExactlyOneFlag ==
    [][/\ resp'.op = "teacherClasses" =>
            LET now == (clock \div 60000) % 1440 IN
            /\ MinuteOfDay(resp'.body.currentTime) = now
            /\ \A i \in DOMAIN resp'.body.classes :
                  LET cls == resp'.body.classes[i]
                      start == MinuteOfDay(resp'.body.classes[i].startTime)
                      end == MinuteOfDay(resp'.body.classes[i].endTime)
                  IN
                  /\ cls.canTakeAttendance = (start <= now /\ now <= end)
                  /\ cls.isUpcoming = (now < start)
                  /\ cls.isCompleted = (now > end)
                  /\ start <= end => FlagsTrue(cls) = 1
                  /\ start > end =>
                        /\ ~cls.canTakeAttendance
                        /\ (end < now /\ now < start) =>
                              (cls.isUpcoming /\ cls.isCompleted)
       /\ (resp'.op = "timetable" /\ ~TimetableMissing(resp'.req)) =>
            LET id == resp'.req.classId \o <<"-">> \o resp'.req.dayOfWeek \o <<"-">>
                         \o resp'.req.startTime
            IN
            /\ resp'.status = 200
            /\ HasItem(timetable', id)
            /\ timetable'[id].startTime = resp'.req.startTime
            /\ timetable'[id].endTime = resp'.req.endTime]_vars

\* C22, its case: the listing holds an entry whose startTime is after its
\* endTime, taken between the two, with isUpcoming and isCompleted both true,
\* next to an entry with startTime <= endTime.
C22_Witness ==
    /\ resp.op = "teacherClasses"
    /\ \E i, j \in DOMAIN resp.body.classes :
          /\ MinuteOfDay(resp.body.classes[i].startTime)
                > MinuteOfDay(resp.body.classes[i].endTime)
          /\ MinuteOfDay(resp.body.classes[i].endTime)
                < MinuteOfDay(resp.body.currentTime)
          /\ MinuteOfDay(resp.body.currentTime)
                < MinuteOfDay(resp.body.classes[i].startTime)
          /\ resp.body.classes[i].isUpcoming
          /\ resp.body.classes[i].isCompleted
          /\ MinuteOfDay(resp.body.classes[j].startTime)
                <= MinuteOfDay(resp.body.classes[j].endTime)

\* C22, its case at the end of a class: the listing was taken in the minute the
\* class ends, and the class can still be taken and is not completed.
C22_WitnessLastMinute ==
    /\ resp.op = "teacherClasses"
    /\ \E i \in DOMAIN resp.body.classes :
          /\ resp.body.classes[i].endTime = resp.body.currentTime
          /\ resp.body.classes[i].canTakeAttendance
          /\ ~resp.body.classes[i].isCompleted

\* No listed class is upcoming and completed at once (this does not hold: an
\* entry with startTime > endTime is both).
NeverUpcomingAndCompleted ==
    resp.op = "teacherClasses" =>
       \A i \in DOMAIN resp.body.classes :
          ~(resp.body.classes[i].isUpcoming /\ resp.body.classes[i].isCompleted)

=============================================================================
